---- MODULE Spec2Model ----
(***************************************************************************)
(* Model of streamlit_app.py: the one-input customer-update slide          *)
(* generator.  The form widgets are the state, a click on "Generate PPTX"  *)
(* runs generate_sections, build_slide and the save/download wiring, and   *)
(* the provider call is the one point where the run waits on the outside.  *)
(*                                                                         *)
(* Text is modelled as a sequence of string tokens (a token is a run of    *)
(* characters that the code never looks inside); a response body is a      *)
(* sequence of lexical tokens, fine enough for json.loads and for the      *)
(* regular expression of safe_parse_json.  Lengths are in 1/1000 inch,     *)
(* the values handed to Inches().  Characters outside ASCII are written    *)
(* <U+xxxx>.                                                               *)
(***************************************************************************)
EXTENDS Naturals, Integers, Sequences, FiniteSets, TLC

VARIABLES customer, accent_hex, logo_file, provider, api_key, pptx, requests,
          presets, pc, text, parsed, sections, trace, error, prs, download

\* customer, accent_hex, logo_file, provider, api_key: the values of the form
\*   widgets (texts as token sequences; logo_file "None", "png" or "corrupt");
\*   NotDrawn / "<not drawn>" while the script stops before the form.
\* pptx: whether python-pptx imports (the try of the required dependencies).
\* requests: whether the script has bound the module requests (its import
\*   is reached and succeeds).
\* presets: the table PRESETS as the last script run left it, NoTable when
\*   the script never got to build it.
\* pc: "idle", "stopped" (st.stop() after the failed import of python-pptx),
\*   "waiting" (the handler is inside requests.post), or "parsed"
\*   (safe_parse_json has been applied to text, under SpecParse).
\* text, parsed: the content text of the provider's answer and what
\*   safe_parse_json made of it.
\* sections: what generate_sections returned in this run.
\* trace: the calls of the run that have an effect outside it, in order.
\* error: the text of st.error, "" when none is shown.
\* prs: the shapes of the slide build_slide returned, <<>> when none.
\* download: what st.download_button offers.
vars == <<customer, accent_hex, logo_file, provider, api_key, pptx, requests,
          presets, pc, text, parsed, sections, trace, error, prs, download>>

(***************************************************************************)
(* Values of a content record and tokens of a response body.               *)
(***************************************************************************)

\* A value that json.loads builds: a string (kind "str", its text), a list
\* of strings (kind "list", its items), None from null, an int from a JSON
\* number without fraction and exponent, a float from one with either.
\* NoVal stands where no value is read.  An exception is kept as its
\* message, str(e).
StrVal(t) == [kind |-> "str", text |-> t, items |-> <<>>]
ListVal(ls) == [kind |-> "list", text |-> <<>>, items |-> ls]
NullVal == [kind |-> "null", text |-> <<>>, items |-> <<>>]
IntVal == [kind |-> "int", text |-> <<>>, items |-> <<>>]
FloatVal == [kind |-> "float", text |-> <<>>, items |-> <<>>]
NoVal == [kind |-> "none", text |-> <<>>, items |-> <<>>]

\* type(v).__name__, as the messages of TypeError spell it.
TypeName(val) ==
    CASE val.kind = "null" -> "NoneType"
      [] val.kind = "int" -> "int"
      [] val.kind = "float" -> "float"
      [] val.kind = "str" -> "str"
      [] val.kind = "list" -> "list"

\* Lexical tokens of a body.  "prose": a word of prose (no brace, no
\* bracket, no backtick, no quote, not valid JSON); "ws": whitespace of JSON
\* (space, tab, newline, carriage return); "xws": whitespace that \s of the
\* regular expression takes and JSON does not skip (vertical tab, form feed,
\* no-break space, ...); "fence": three backticks; "json": the literal word
\* json; "lbrace" / "rbrace" / "lbracket" / "rbracket" / "comma"; "quote":
\* a double quote, one end of a string literal; "scalar": a JSON number
\* written with its sign (two in a row are no number), v the int or float
\* it denotes; "key": a string followed by a colon; "member": a whole
\* key-value member "f": v whose value v is brace- and backtick-free.
Tok(t) == [t |-> t, f |-> "", v |-> NoVal]
Scalar(v) == [t |-> "scalar", f |-> "", v |-> v]
Member(f, v) == [t |-> "member", f |-> f, v |-> v]

Kind(s, i) == IF i \in 1..Len(s) THEN s[i].t ELSE "eof"

(***************************************************************************)
(* json.loads on a token sequence.                                         *)
(***************************************************************************)

\* JSON ignores its own whitespace between tokens; the value is kept as its
\* token sequence without it.  Any other whitespace stays, and is no token
\* of JSON.
Canon(s) == SelectSeq(s, LAMBDA k : k.t # "ws")

\* The index after the string literal that opens at c[i]: it closes at the
\* next quote.  The bodies drawn hold, between the two quotes of a string,
\* prose, fences and braces only (no whitespace, no escape, no token that
\* itself holds a quote).
StringEnd(c, i) ==
    LET Q == {j \in (i + 1)..Len(c) : Kind(c, j) = "quote"}
    IN  IF Q = {} THEN 0 ELSE (CHOOSE j \in Q : \A x \in Q : j <= x) + 1

RECURSIVE ValueEnd(_, _), MembersEnd(_, _), ItemsEnd(_, _)
\* The index after the JSON value that starts at c[i], 0 when none does.
ValueEnd(c, i) ==
    CASE Kind(c, i) = "scalar" -> i + 1
      [] Kind(c, i) = "quote" -> StringEnd(c, i)
      [] Kind(c, i) = "lbrace" ->
            IF Kind(c, i + 1) = "rbrace" THEN i + 2 ELSE MembersEnd(c, i + 1)
      [] Kind(c, i) = "lbracket" ->
            IF Kind(c, i + 1) = "rbracket" THEN i + 2 ELSE ItemsEnd(c, i + 1)
      [] OTHER -> 0

\* The index after the closing brace of an object whose members start at c[i].
MembersEnd(c, i) ==
    LET j == CASE Kind(c, i) = "member" -> i + 1
               [] Kind(c, i) = "key" -> ValueEnd(c, i + 1)
               [] OTHER -> 0
    IN  CASE j = 0 -> 0
          [] Kind(c, j) = "rbrace" -> j + 1
          [] Kind(c, j) = "comma" -> MembersEnd(c, j + 1)
          [] OTHER -> 0

\* The index after the closing bracket of an array whose items start at c[i].
ItemsEnd(c, i) ==
    LET j == ValueEnd(c, i)
    IN  CASE j = 0 -> 0
          [] Kind(c, j) = "rbracket" -> j + 1
          [] Kind(c, j) = "comma" -> ItemsEnd(c, j + 1)
          [] OTHER -> 0

IsJson(s) == LET c == Canon(s) IN Len(c) > 0 /\ ValueEnd(c, 1) = Len(c) + 1

\* json.loads(text): the value, or the exception.
json_loads(s) ==
    IF IsJson(s) THEN [ok |-> TRUE, value |-> Canon(s)]
    ELSE [ok |-> FALSE, value |-> <<>>]

(***************************************************************************)
(* re.findall(r"```(?:json)?\s*(\{.*?\})\s*```", text, flags=re.S)         *)
(***************************************************************************)

RECURSIVE SkipWs(_, _)
\* \s* is greedy: the first index >= i that holds no whitespace, of either
\* class.
SkipWs(s, i) == IF Kind(s, i) \in {"ws", "xws"} THEN SkipWs(s, i + 1) ELSE i

\* A match that starts at s[i]: the fence, the optional tag, whitespace, the
\* opening brace, then lazily up to the first closing brace that whitespace
\* and a fence follow.  [ok, from, to, end]: the group is s[from..to], the
\* closing fence is s[end].
MatchAt(s, i) ==
    LET a == IF Kind(s, i + 1) = "json" THEN i + 2 ELSE i + 1
        b == SkipWs(s, a)
        E == {e \in (b + 1)..Len(s) :
                Kind(s, e) = "rbrace" /\ Kind(s, SkipWs(s, e + 1)) = "fence"}
        e0 == CHOOSE e \in E : \A x \in E : e <= x
    IN  IF Kind(s, i) = "fence" /\ Kind(s, b) = "lbrace" /\ E # {}
        THEN [ok |-> TRUE, from |-> b, to |-> e0, end |-> SkipWs(s, e0 + 1)]
        ELSE [ok |-> FALSE, from |-> 0, to |-> 0, end |-> 0]

RECURSIVE FindAllFrom(_, _)
\* The groups of the non-overlapping matches, scanning from s[i] rightwards.
FindAllFrom(s, i) ==
    IF i > Len(s) THEN <<>>
    ELSE LET m == MatchAt(s, i)
         IN  IF m.ok THEN <<SubSeq(s, m.from, m.to)>> \o FindAllFrom(s, m.end + 1)
             ELSE FindAllFrom(s, i + 1)

re_findall(s) == FindAllFrom(s, 1)

\* A variant that tries the first candidate only.
FirstParsing_first_only(blocks) ==
    IF blocks = <<>> THEN [ok |-> FALSE, value |-> <<>>]
    ELSE json_loads(Head(blocks))

RECURSIVE FirstParsing(_)
\* for b in blocks: try: return json.loads(b) / except: continue; then raise.
FirstParsing(blocks) ==
    IF blocks = <<>> THEN [ok |-> FALSE, value |-> <<>>]
    ELSE IF json_loads(Head(blocks)).ok THEN json_loads(Head(blocks))
    ELSE FirstParsing(Tail(blocks))

\* safe_parse_json(text): ok = FALSE is the ValueError.
safe_parse_json(s) ==
    IF json_loads(s).ok THEN json_loads(s) ELSE FirstParsing(re_findall(s))

(***************************************************************************)
(* The Python value of a parsed body: a dict of its top-level members, or  *)
(* a value that is no dict.                                                *)
(***************************************************************************)

EmptyDict == [k \in {} |-> NoVal]

Depth(c, i) ==
    Cardinality({j \in 1..(i - 1) : c[j].t = "lbrace"})
        - Cardinality({j \in 1..(i - 1) : c[j].t = "rbrace"})

\* json.loads builds a dict from an object (of two members with one key the
\* last wins) and a number, val, from a scalar (the bodies that are rendered
\* hold no string literal and no array outside a member).  A "key" token names no field
\* of the schema; its value is never read.
ToDict(c) ==
    LET top == {i \in 1..Len(c) : c[i].t \in {"member", "key"} /\ Depth(c, i) = 1}
        last(k) == CHOOSE i \in top : c[i].f = k /\ \A j \in top : c[j].f = k => j <= i
    IN  IF Kind(c, 1) = "lbrace"
        THEN [isdict |-> TRUE,
              d |-> [k \in {c[i].f : i \in top} |->
                        IF c[last(k)].t = "member" THEN c[last(k)].v ELSE NoVal],
              val |-> NoVal]
        ELSE [isdict |-> FALSE, d |-> EmptyDict, val |-> c[1].v]

(***************************************************************************)
(* Content generation.                                                     *)
(***************************************************************************)

NoLLM == "No-LLM (preset/smart template)"

Fields == <<"corporate_vision", "business_strategies", "supply_chain_contribution",
            "risks_of_supply_chain_failure", "critical_capabilities">>

BulletFields == {Fields[i] : i \in 2..5}

RugsUSA == <<"Rugs", " ", "USA">>

PRESETS ==
    (RugsUSA :> [
        corporate_vision |-> StrVal(<<"Rugs USA helps customers turn houses into homes by offering a curated, stylish, high-quality assortment at compelling prices, delivered through a seamless digital shopping and support experience.">>),
        business_strategies |-> ListVal(<<
            <<"Expand <U+2018>house of brands<U+2019> to broaden assortment and reach.">>,
            <<"Accelerate operational efficiency via DC consolidation and lean processes.">>,
            <<"Win digital: strengthen DTC and marketplaces for scaled demand.">>,
            <<"Refresh catalog with designer and partner collaborations.">>,
            <<"Tighten pricing, merchandising, and returns to lift unit economics.">> >>),
        supply_chain_contribution |-> ListVal(<<
            <<"Faster delivery through optimized DC network and slotting.">>,
            <<"Flexible routing to serve DTC site and marketplaces.">>,
            <<"Rapid vendor onboarding with packaging and QC compliance.">>,
            <<"Inventory visibility and demand-aligned PO planning.">>,
            <<"Carrier and 3PL partnerships for cost and reliability.">> >>),
        risks_of_supply_chain_failure |-> ListVal(<<
            <<"Debt pressure constraining capex for ops improvements.">>,
            <<"Housing-linked demand volatility driving forecast error.">>,
            <<"WMS/OMS outages disrupting pick-pack-ship rhythm.">>,
            <<"Integration slippage from M&A or DC consolidation.">>,
            <<"Supplier or carrier delays impacting service levels.">> >>),
        critical_capabilities |-> ListVal(<<
            <<"Modern fulfillment stack: SaaS WMS/OMS and mobile tools.">>,
            <<"SKU-level forecasting and returns analytics.">>,
            <<"Marketplace and carrier relationship management.">>,
            <<"Integration playbooks for synergy capture and cost control.">>,
            <<"Governance: change control, DR, and vendor SLAs.">> >>)])

\* The tail of the f-string of the generic vision.
GenericVisionTail == <<" delivers curated, great-value products through a digital-first, customer-centric experience focused on quality, style, and convenience.">>

GenericBullets ==
    [business_strategies |-> ListVal(<<
        <<"Broaden assortment and strengthen brand positioning.">>,
        <<"Improve fulfillment speed and delivery reliability.">>,
        <<"Scale profitability via pricing and returns discipline.">>,
        <<"Grow demand through marketplaces and partnerships.">>,
        <<"Invest in data-driven merchandising and CX.">> >>),
     supply_chain_contribution |-> ListVal(<<
        <<"Optimize DC footprint and pick-pack efficiency.">>,
        <<"Enable omnichannel routing and inventory visibility.">>,
        <<"Tighten supplier onboarding and packaging compliance.">>,
        <<"Leverage carrier mix for cost and service balance.">>,
        <<"Deploy WMS/OMS dashboards for real-time control.">> >>),
     risks_of_supply_chain_failure |-> ListVal(<<
        <<"Forecast error from macro or seasonal volatility.">>,
        <<"System outages disrupting order flow or labeling.">>,
        <<"Carrier delays or capacity constraints.">>,
        <<"Supplier quality or lead-time variability.">>,
        <<"Cost inflation eroding contribution margins.">> >>),
     critical_capabilities |-> ListVal(<<
        <<"Reliable WMS/OMS with strict change control.">>,
        <<"SKU-level demand and returns analytics.">>,
        <<"S&OP cadence linking demand to supply plans.">>,
        <<"Partner SLAs and performance governance.">>,
        <<"Contingency playbooks and DR testing.">> >>)]

\* A variant whose vision names no customer.
GenericRecord_anon(customer_name) ==
    [f \in {Fields[i] : i \in 1..5} |->
        IF f = "corporate_vision" THEN StrVal(<<"The company">> \o GenericVisionTail)
        ELSE GenericBullets[f]]

\* The generic record for a name that is no key of PRESETS.
GenericRecord(customer_name) ==
    [f \in {Fields[i] : i \in 1..5} |->
        IF f = "corporate_vision" THEN StrVal(customer_name \o GenericVisionTail)
        ELSE GenericBullets[f]]

\* A dict as the value of sections (val is the value when it is no dict).
Dict(rec) == [isdict |-> TRUE, d |-> rec, val |-> NoVal]
NoSections == [isdict |-> FALSE, d |-> EmptyDict, val |-> NoVal]

Return(rec) == [out |-> "return", sections |-> Dict(rec), exc |-> ""]
Raise(exc) == [out |-> "raise", sections |-> NoSections, exc |-> exc]
Post(url) == [out |-> "post", sections |-> NoSections, exc |-> url]

\* A variant that never looks the name up.
generate_sections_no_lookup(table, customer_name, mode, key, req) ==
    CASE mode = NoLLM -> Return(GenericRecord(customer_name))
      [] mode = "OpenAI" ->
            IF ~req THEN Raise("<U+0060>requests<U+0060> package not available.")
            ELSE IF key = <<>> THEN Raise("Missing OpenAI API key.")
            ELSE Post("https://api.openai.com/v1/chat/completions")
      [] mode = "Anthropic" ->
            IF ~req THEN Raise("<U+0060>requests<U+0060> package not available.")
            ELSE IF key = <<>> THEN Raise("Missing Anthropic API key.")
            ELSE Post("https://api.anthropic.com/v1/messages")
      [] OTHER -> Raise("Unknown provider.")

\* generate_sections up to its return, its raise or its call of the
\* provider (out = "post": the request is sent next and the run waits).
\* table is the PRESETS of this run, req is whether requests was imported.
generate_sections(table, customer_name, mode, key, req) ==
    CASE mode = NoLLM ->
            IF customer_name \in DOMAIN table THEN Return(table[customer_name])
            ELSE Return(GenericRecord(customer_name))
      [] mode = "OpenAI" ->
            IF ~req THEN Raise("<U+0060>requests<U+0060> package not available.")
            ELSE IF key = <<>> THEN Raise("Missing OpenAI API key.")
            ELSE Post("https://api.openai.com/v1/chat/completions")
      [] mode = "Anthropic" ->
            IF ~req THEN Raise("<U+0060>requests<U+0060> package not available.")
            ELSE IF key = <<>> THEN Raise("Missing Anthropic API key.")
            ELSE Post("https://api.anthropic.com/v1/messages")
      [] OTHER -> Raise("Unknown provider.")

\* What the provider call hands back once the POST has an answer.  answer.net
\* is "error" (requests raised, or raise_for_status did), or "ok" with an
\* envelope that holds the content text or is an empty JSON object: that is
\* a KeyError in call_openai_chat and the empty text in call_anthropic.
call_provider(mode, answer) ==
    CASE answer.net = "error" -> [ok |-> FALSE, exc |-> "<requests exception>", text |-> <<>>]
      [] answer.envelope = "content" -> [ok |-> TRUE, exc |-> "", text |-> answer.text]
      [] mode = "OpenAI" -> [ok |-> FALSE, exc |-> "'choices'", text |-> <<>>]
      [] OTHER -> [ok |-> TRUE, exc |-> "", text |-> <<>>]


(***************************************************************************)
(* PPTX rendering.  A shape is [shape, left, top, width, height, paras,    *)
(* fill]; paras are the paragraphs of its text frame, fill an RGB triple   *)
(* (<<>> for none).  Font metadata is left out.                            *)
(***************************************************************************)

slide_width == 13330
slide_height == 7500
y0 == 1250
row_h == 1400

BULLET == "<U+2022> "

TextBox(l, t, w, h, ps) ==
    [shape |-> "textbox", left |-> l, top |-> t, width |-> w, height |-> h,
     paras |-> ps, fill |-> <<>>]
Rect(l, t, w, h, rgb) ==
    [shape |-> "rectangle", left |-> l, top |-> t, width |-> w, height |-> h,
     paras |-> <<>>, fill |-> rgb]
\* The height of a picture follows the image; it is not set by the code.
Picture(l, t, w) ==
    [shape |-> "picture", left |-> l, top |-> t, width |-> w, height |-> 0,
     paras |-> <<>>, fill |-> <<>>]

HexDigit(ch) ==
    CASE ch = "0" -> 0 [] ch = "1" -> 1 [] ch = "2" -> 2 [] ch = "3" -> 3
      [] ch = "4" -> 4 [] ch = "5" -> 5 [] ch = "6" -> 6 [] ch = "7" -> 7
      [] ch = "8" -> 8 [] ch = "9" -> 9 [] ch \in {"A", "a"} -> 10
      [] ch \in {"B", "b"} -> 11 [] ch \in {"C", "c"} -> 12
      [] ch \in {"D", "d"} -> 13 [] ch \in {"E", "e"} -> 14
      [] ch \in {"F", "f"} -> 15

RECURSIVE LStrip(_, _)
LStrip(s, ch) == IF s # <<>> /\ Head(s) = ch THEN LStrip(Tail(s), ch) ELSE s

\* rgb_hex_to_tuple on the characters of the colour picker's #RRGGBB.
rgb_hex_to_tuple(hex_color) ==
    LET h == LStrip(hex_color, "#")
    IN  <<16 * HexDigit(h[1]) + HexDigit(h[2]),
          16 * HexDigit(h[3]) + HexDigit(h[4]),
          16 * HexDigit(h[5]) + HexDigit(h[6])>>

\* A variant that lets the failure of the picture escape.
add_logo_unguarded(shapes, file_uploader_obj) ==
    CASE file_uploader_obj = "None" -> [raised |-> FALSE, shapes |-> shapes]
      [] file_uploader_obj = "corrupt" -> [raised |-> TRUE, shapes |-> shapes]
      [] OTHER -> [raised |-> FALSE, shapes |-> Append(shapes, Picture(11400, 300, 1600))]

\* add_logo: no upload ("None"), an upload that add_picture takes ("png"),
\* or one whose decoding or placement raises ("corrupt"): the except clause
\* swallows it, and add_picture has added nothing by then.
add_logo(shapes, file_uploader_obj) ==
    CASE file_uploader_obj = "None" -> [raised |-> FALSE, shapes |-> shapes]
      [] file_uploader_obj = "corrupt" -> [raised |-> FALSE, shapes |-> shapes]
      [] OTHER -> [raised |-> FALSE, shapes |-> Append(shapes, Picture(11400, 300, 1600))]

add_rule(y_in, color) == Rect(500, y_in, 12300, 44, color)

left_label(label, y_in) == TextBox(300, y_in, 2500, 1000, <<label>>)

\* The paragraphs of a text frame filled from body: tf.clear() leaves one
\* empty paragraph; a str sets it, a list sets it from its first line and
\* adds one paragraph per further line.  Iterating null or a number raises.
BodyParas(body) ==
    CASE body.kind = "str" -> <<body.text>>
      [] body.kind = "list" /\ body.items # <<>> -> body.items
      [] OTHER -> << <<>> >>

\* A variant with no paragraph for the last line.
right_title_body_short(title, body, y_in) ==
    IF body.kind \in {"str", "list"}
    THEN [raised |-> FALSE,
          shapes |-> <<TextBox(3000, y_in, 9600, 700, <<title>>),
                       TextBox(3000, y_in + 550, 9600, 1400,
                               IF body.kind = "list" /\ Len(body.items) > 1
                               THEN SubSeq(body.items, 1, Len(body.items) - 1)
                               ELSE BodyParas(body))>>]
    ELSE [raised |-> TRUE, shapes |-> <<>>]

right_title_body(title, body, y_in) ==
    IF body.kind \in {"str", "list"}
    THEN [raised |-> FALSE,
          shapes |-> <<TextBox(3000, y_in, 9600, 700, <<title>>),
                       TextBox(3000, y_in + 550, 9600, 1400, BodyParas(body))>>]
    ELSE [raised |-> TRUE, shapes |-> <<>>]

\* What a for loop over a value yields: the items of a list, the characters
\* of a str (a token of such a str is one character).
Iterate(val) ==
    IF val.kind = "str" THEN [i \in 1..Len(val.text) |-> <<val.text[i]>>] ELSE val.items

\* ["<bullet> " + s for s in sections[f]]
Bulleted(val) == ListVal([i \in 1..Len(Iterate(val)) |-> <<BULLET>> \o Iterate(val)[i]])

RowTitles ==
    <<[rail |-> <<"Corporate", "\n", "Vision">>, title |-> <<"Corporate Vision">>],
      [rail |-> <<"Business", "\n", "Strategies">>, title |-> <<"Business Strategies">>],
      [rail |-> <<"Supply Chain", "\n", "Contribution">>, title |-> <<"Supply Chain Contribution">>],
      [rail |-> <<"Risks of", "\n", "Supply Chain", "\n", "Failure">>, title |-> <<"Risks of Supply Chain Failure">>],
      [rail |-> <<"Critical", "\n", "Capabilities">>, title |-> <<"Critical Capabilities">>]>>

\* The TypeError of a loop over None or over a number.
NotIterable(val) == "'" \o TypeName(val) \o "' object is not iterable"

\* The TypeError of subscripting a number.
NotSubscriptable(val) == "'" \o TypeName(val) \o "' object is not subscriptable"

\* The exception of building the list rows, "" when it is built: the fields
\* are read in the order of the list; subscripting a number is a TypeError
\* that names its type, a missing field is a KeyError, whose message is the
\* quoted key.
RECURSIVE RowsExc(_, _)
RowsExc(sections_, i) ==
    CASE i > 5 -> ""
      [] ~sections_.isdict -> NotSubscriptable(sections_.val)
      [] Fields[i] \notin DOMAIN sections_.d -> "'" \o Fields[i] \o "'"
      [] i > 1 /\ sections_.d[Fields[i]].kind \notin {"str", "list"} ->
            NotIterable(sections_.d[Fields[i]])
      [] OTHER -> RowsExc(sections_, i + 1)

rows(sections_) ==
    [i \in 1..5 |->
        [rail |-> RowTitles[i].rail, title |-> RowTitles[i].title,
         body |-> IF i = 1 THEN sections_.d[Fields[1]] ELSE Bulleted(sections_.d[Fields[i]])]]

rule_color == <<165, 175, 190>>

\* datetime.now().strftime(fmt): the day read, as formatted by fmt.
strftime(day, fmt) == <<day, fmt>>

\* A variant that never advances y.
RECURSIVE RowLoop_fixed_y(_, _, _, _)
RowLoop_fixed_y(rws, i, y, shapes) ==
    IF i > Len(rws) THEN [raised |-> FALSE, shapes |-> shapes]
    ELSE LET r == right_title_body(rws[i].title, rws[i].body, y - 20)
         IN  IF r.raised THEN [raised |-> TRUE, shapes |-> shapes]
             ELSE RowLoop_fixed_y(rws, i + 1, y,
                          shapes \o <<left_label(rws[i].rail, y - 50)>> \o r.shapes
                                 \o <<add_rule(y + row_h, rule_color)>>)

\* The loop over rows from row i on, y the offset of row i: the rail label,
\* the title with its body, the rule, then y += row_h.
RECURSIVE RowLoop(_, _, _, _)
RowLoop(rws, i, y, shapes) ==
    IF i > Len(rws) THEN [raised |-> FALSE, shapes |-> shapes]
    ELSE LET r == right_title_body(rws[i].title, rws[i].body, y - 20)
         IN  IF r.raised THEN [raised |-> TRUE, shapes |-> shapes]
             ELSE RowLoop(rws, i + 1, y + row_h,
                          shapes \o <<left_label(rws[i].rail, y - 50)>> \o r.shapes
                                 \o <<add_rule(y + row_h, rule_color)>>)

\* The accent bar.
vbar(accent_rgb) == Rect(2800, 1200, 60, 5800, accent_rgb)

\* A variant that renders a missing field as an empty one.
build_slide_defaults(customer_name, accent_rgb, sections_, logo, day) ==
    LET filled == [isdict |-> sections_.isdict,
                   d |-> [f \in {Fields[i] : i \in 1..5} |->
                            IF f \in DOMAIN sections_.d THEN sections_.d[f]
                            ELSE IF f = Fields[1] THEN StrVal(<<>>) ELSE ListVal(<<>>)],
                   val |-> sections_.val]
        header == TextBox(500, 350, 9000, 900, << <<"Customer Updates">> >>)
        lg == add_logo(<<header>>, logo)
        exc == RowsExc(filled, 1)
        lp == RowLoop(rows(filled), 1, y0, Append(lg.shapes, vbar(accent_rgb)))
        foot == TextBox(500, 6900, 12300, 400,
                        <<customer_name \o <<"  <U+2022>  ">> \o strftime(day, "%b %d, %Y")>>)
    IN  CASE lg.raised -> [ok |-> FALSE, exc |-> "cannot identify image file", shapes |-> <<>>]
          [] exc # "" -> [ok |-> FALSE, exc |-> exc, shapes |-> <<>>]
          [] lp.raised ->
                [ok |-> FALSE, exc |-> NotIterable(filled.d[Fields[1]]), shapes |-> <<>>]
          [] OTHER -> [ok |-> TRUE, exc |-> "", shapes |-> Append(lp.shapes, foot)]

\* build_slide: [ok, exc, shapes], the shapes of the one slide of the
\* presentation it returns, or the exception it raises.  The logo is the
\* global logo_file (the parameter logo_bytes is not read); the caller
\* passes that same upload.
build_slide(customer_name, accent_rgb, sections_, logo, day) ==
    LET header == TextBox(500, 350, 9000, 900, << <<"Customer Updates">> >>)
        lg == add_logo(<<header>>, logo)
        exc == RowsExc(sections_, 1)
        lp == RowLoop(rows(sections_), 1, y0, Append(lg.shapes, vbar(accent_rgb)))
        foot == TextBox(500, 6900, 12300, 400,
                        <<customer_name \o <<"  <U+2022>  ">> \o strftime(day, "%b %d, %Y")>>)
    IN  CASE lg.raised -> [ok |-> FALSE, exc |-> "cannot identify image file", shapes |-> <<>>]
          [] exc # "" -> [ok |-> FALSE, exc |-> exc, shapes |-> <<>>]
          [] lp.raised ->
                [ok |-> FALSE, exc |-> NotIterable(sections_.d[Fields[1]]), shapes |-> <<>>]
          [] OTHER -> [ok |-> TRUE, exc |-> "", shapes |-> Append(lp.shapes, foot)]

(***************************************************************************)
(* The form and the handler of the Generate button.                        *)
(***************************************************************************)

RECURSIVE RStrip(_)
RStrip(s) == IF s # <<>> /\ s[Len(s)] = " " THEN RStrip(SubSeq(s, 1, Len(s) - 1)) ELSE s

\* A variant that strips nothing.
Strip_none(s) == s

\* str.strip() on a text whose whitespace tokens are " ".
Strip(s) == RStrip(LStrip(s, " "))

\* str.replace(' ', '_')
ReplaceSpaces(s) == [i \in 1..Len(s) |-> IF s[i] = " " THEN "_" ELSE s[i]]

\* The text of the st.error before st.stop().
MissingDependency ==
    "Missing dependency: **python-pptx**.\n\nAdd <U+0060>python-pptx<U+0060> to requirements.txt, redeploy, and rerun the app."

\* What stands for a widget that no line of the run has drawn, and for the
\* table that no line has built.
NotDrawn == <<"<not drawn>">>
NoTable == [k \in {} |-> EmptyDict]

ProviderOptions(req) == IF req THEN <<"OpenAI", "Anthropic", NoLLM>> ELSE <<NoLLM>>

NoDownload ==
    [offered |-> FALSE, file_name |-> <<>>,
     data |-> [slide_width |-> 0, slide_height |-> 0, slides |-> <<>>]]
NoParse == [ok |-> FALSE, value |-> <<>>]

\* prs.save(buf): the container with its one slide.
Save(shapes) == [slide_width |-> slide_width, slide_height |-> slide_height, slides |-> <<shapes>>]

\* A variant that reports the failure twice.
Failed_twice(tr, exc) ==
    [trace |-> tr \o <<"st.error", "st.error">>, error |-> "Generation failed: " \o exc,
     prs |-> <<>>, download |-> NoDownload]

\* The except clause of the handler: one st.error.
Failed(tr, exc) ==
    [trace |-> tr \o <<"st.error">>, error |-> "Generation failed: " \o exc,
     prs |-> <<>>, download |-> NoDownload]

\* The handler from build_slide on; tr is the trace of the run so far,
\* clock the two readings of datetime.now().
Render(tr, cust, hex, secs, logo, clock) ==
    LET b == build_slide(Strip(cust), rgb_hex_to_tuple(hex), secs, logo, clock[1])
    IN  IF b.ok
        THEN [trace |-> tr \o <<"build_slide", "prs.save", "st.success", "st.download_button">>,
              error |-> "", prs |-> b.shapes,
              download |-> [offered |-> TRUE,
                            file_name |-> ReplaceSpaces(Strip(cust)) \o <<"_Customer_Updates_">>
                                            \o strftime(clock[2], "%Y%m%d") \o <<".pptx">>,
                            data |-> Save(b.shapes)]]
        ELSE Failed(tr \o <<"build_slide">>, b.exc)

(***************************************************************************)
(* Inputs: what the user types and uploads, what the clock reads, what the *)
(* provider answers.                                                       *)
(***************************************************************************)

Customers ==
    {RugsUSA, <<" ">> \o RugsUSA \o <<" ">>, <<"rugs", " ", "usa">>,
     <<"Acme", " ", "Co">>, <<>>}

Accents ==
    {<<"#", "0", "8", "5", "7", "4", "A">>, <<"#", "F", "F", "0", "0", "0", "0">>}

Logos == {"None", "png", "corrupt"}

Keys == {<<>>, <<" ">>, <<"sk-1", " ">>}

Days == {"day1", "day2"}

\* The two readings of the clock in a run: the later is the same day or the next.
Clocks == {<<"day1", "day1">>, <<"day1", "day2">>, <<"day2", "day2">>}

\* A record as a provider may write it.  Its strings are one token per
\* character.
LLMFull ==
    [corporate_vision |-> StrVal(<<"V", "i">>),
     business_strategies |-> ListVal(<< <<"b", "1">>, <<"b", "2">> >>),
     supply_chain_contribution |-> ListVal(<< <<"c", "1">> >>),
     risks_of_supply_chain_failure |-> ListVal(<< <<BULLET, "r">>, <<>>, <<"r", "3">> >>),
     critical_capabilities |-> ListVal(<< <<"k", "1">>, <<"k", "2">> >>)]

Without(rec, f) == [k \in (DOMAIN rec) \ {f} |-> rec[k]]
With(rec, f, v) == [k \in (DOMAIN rec) \cup {f} |-> IF k = f THEN v ELSE rec[k]]

LLMRecords ==
    {LLMFull}
    \cup {Without(LLMFull, Fields[i]) : i \in 1..5}
    \cup {With(LLMFull, f, ListVal(<<>>)) : f \in BulletFields}
    \cup {With(LLMFull, f, NullVal) : f \in {Fields[1], Fields[3]}}
    \cup {With(LLMFull, f, n) : f \in {Fields[1], Fields[2]}, n \in {IntVal, FloatVal}}
    \cup {With(LLMFull, Fields[1], ListVal(<< <<"V">>, <<"i">> >>)),
          With(LLMFull, Fields[5], StrVal(<<"k", "1">>)),
          Without(With(LLMFull, Fields[2], NullVal), Fields[5]),
          Without(With(LLMFull, Fields[1], NullVal), Fields[4]),
          EmptyDict}

RECURSIVE MembersOf(_, _)
\* The members of rec for the fields i.., separated by commas.
MembersOf(rec, i) ==
    IF i > 5 THEN <<>>
    ELSE IF Fields[i] \notin DOMAIN rec THEN MembersOf(rec, i + 1)
    ELSE LET rest == MembersOf(rec, i + 1)
         IN  <<Member(Fields[i], rec[Fields[i]])>>
                \o (IF rest = <<>> THEN <<>> ELSE <<Tok("comma"), Tok("ws")>> \o rest)

\* The JSON text of rec.
Dumps(rec) == <<Tok("lbrace")>> \o MembersOf(rec, 1) \o <<Tok("rbrace")>>

Fenced(s) ==
    <<Tok("prose"), Tok("ws"), Tok("fence"), Tok("json"), Tok("ws")>> \o s
        \o <<Tok("ws"), Tok("fence")>>

Bodies ==
    {Dumps(r) : r \in LLMRecords}
    \cup {Fenced(Dumps(r)) : r \in LLMRecords}
    \cup {<<Tok("prose"), Tok("ws"), Tok("prose")>>,
          <<Scalar(IntVal)>>,
          <<Scalar(FloatVal)>>,
          <<Tok("lbrace"), Tok("xws"), Tok("rbrace")>>,
          <<Tok("fence"), Tok("json"), Tok("xws")>> \o Dumps(LLMFull)
            \o <<Tok("xws"), Tok("fence")>>,
          <<Tok("fence"), Tok("json"), Tok("lbrace"), Tok("xws"), Tok("rbrace"), Tok("fence")>>,
          <<Tok("fence"), Scalar(IntVal), Tok("fence")>>,
          <<Tok("fence"), Tok("lbrace"), Tok("prose"), Tok("rbrace"), Tok("fence"),
            Tok("ws"), Tok("fence")>> \o Dumps(LLMFull) \o <<Tok("fence")>>,
          <<Tok("lbrace"), Member(Fields[1], NullVal), Tok("comma")>>
            \o Tail(Dumps(LLMFull)),
          <<Tok("lbrace"), Tok("key"), Tok("lbrace"), Member(Fields[1], NullVal),
            Tok("rbrace"), Tok("comma")>> \o Tail(Dumps(Without(LLMFull, Fields[1]))),
          SubSeq(Dumps(LLMFull), 1, Len(Dumps(LLMFull)) - 1)}

Answers ==
    {[net |-> "error", envelope |-> "", text |-> <<>>],
     [net |-> "ok", envelope |-> "empty", text |-> <<>>]}
    \cup {[net |-> "ok", envelope |-> "content", text |-> b] : b \in Bodies}

(***************************************************************************)
(* The state machine.  Every action is one run of the script: the module   *)
(* level rebuilds PRESETS, and outside the handler of the button nothing   *)
(* of an earlier run is shown.                                             *)
(***************************************************************************)

\* The first run of the script.  With python-pptx importable the form is
\* drawn with its defaults; without it the run shows the error and stops at
\* st.stop(), before the import of requests, the form and PRESETS.
Init ==
    /\ pptx \in BOOLEAN
    /\ text = <<>>
    /\ parsed = NoParse
    /\ sections = NoSections
    /\ prs = <<>>
    /\ download = NoDownload
    /\ IF pptx
       THEN /\ requests \in BOOLEAN
            /\ customer = RugsUSA
            /\ accent_hex = <<"#", "0", "8", "5", "7", "4", "A">>
            /\ logo_file = "None"
            /\ provider = ProviderOptions(requests)[1]
            /\ api_key = <<>>
            /\ presets = PRESETS
            /\ pc = "idle"
            /\ trace = <<>>
            /\ error = ""
       ELSE /\ requests = FALSE
            /\ customer = NotDrawn
            /\ accent_hex = NotDrawn
            /\ logo_file = "<not drawn>"
            /\ provider = "<not drawn>"
            /\ api_key = NotDrawn
            /\ presets = NoTable
            /\ pc = "stopped"
            /\ trace = <<"st.error">>
            /\ error = MissingDependency

\* A rerun in which the button was not clicked.
Rerun ==
    /\ presets' = PRESETS
    /\ pc' = "idle"
    /\ text' = <<>>
    /\ parsed' = NoParse
    /\ sections' = NoSections
    /\ trace' = <<>>
    /\ error' = ""
    /\ prs' = <<>>
    /\ download' = NoDownload
    /\ UNCHANGED <<pptx, requests>>

\* The user reruns the script with the widgets as they are: with the form
\* drawn it is a run without a click; after st.stop() the import fails as
\* before and the run ends at st.stop() again.
Reload ==
    /\ pc \in {"idle", "stopped"}
    /\ UNCHANGED <<customer, accent_hex, logo_file, provider, api_key>>
    /\ IF pptx THEN Rerun
       ELSE /\ pc' = "stopped"
            /\ trace' = <<"st.error">>
            /\ error' = MissingDependency
            /\ UNCHANGED <<pptx, requests, presets, text, parsed, sections, prs, download>>

SetCustomer(c) ==
    /\ pc = "idle"
    /\ customer' = c
    /\ UNCHANGED <<accent_hex, logo_file, provider, api_key>>
    /\ Rerun

SetAccent(a) ==
    /\ pc = "idle"
    /\ accent_hex' = a
    /\ UNCHANGED <<customer, logo_file, provider, api_key>>
    /\ Rerun

SetLogo(l) ==
    /\ pc = "idle"
    /\ logo_file' = l
    /\ UNCHANGED <<customer, accent_hex, provider, api_key>>
    /\ Rerun

\* The key input is drawn for a provider only, one widget per provider: a
\* provider newly selected starts with an empty key.
SetProvider(p) ==
    /\ pc = "idle"
    /\ p # provider
    /\ provider' = p
    /\ api_key' = <<>>
    /\ UNCHANGED <<customer, accent_hex, logo_file>>
    /\ Rerun

SetKey(k) ==
    /\ pc = "idle"
    /\ provider \in {"OpenAI", "Anthropic"}
    /\ api_key' = k
    /\ UNCHANGED <<customer, accent_hex, logo_file, provider>>
    /\ Rerun

\* What a finished run leaves on the page.
Finish(out) ==
    /\ trace' = out.trace
    /\ error' = out.error
    /\ prs' = out.prs
    /\ download' = out.download
    /\ pc' = "idle"

\* A click on Generate PPTX: the handler up to its end, or up to the POST
\* of call_openai_chat / call_anthropic.
ClickGenerate ==
    /\ pc = "idle"
    /\ presets' = PRESETS
    /\ UNCHANGED <<customer, accent_hex, logo_file, provider, api_key, pptx, requests>>
    /\ LET g == generate_sections(PRESETS, Strip(customer), provider, Strip(api_key), requests)
       IN  \/ /\ g.out = "raise"
              /\ Finish(Failed(<<>>, g.exc))
              /\ sections' = NoSections
              /\ text' = <<>>
              /\ parsed' = NoParse
           \/ /\ g.out = "return"
              /\ \E clock \in Clocks :
                    Finish(Render(<<>>, customer, accent_hex, g.sections, logo_file, clock))
              /\ sections' = g.sections
              /\ text' = <<>>
              /\ parsed' = NoParse
           \/ /\ g.out = "post"
              /\ pc' = "waiting"
              /\ trace' = <<"requests.post">>
              /\ error' = ""
              /\ prs' = <<>>
              /\ download' = NoDownload
              /\ sections' = NoSections
              /\ text' = <<>>
              /\ parsed' = NoParse

\* The POST returns or raises, and the handler runs to its end.
Respond(answer) ==
    /\ pc = "waiting"
    /\ UNCHANGED <<customer, accent_hex, logo_file, provider, api_key, pptx, requests,
                   presets>>
    /\ LET c == call_provider(provider, answer)
           p == safe_parse_json(c.text)
       IN  \/ /\ ~c.ok
              /\ Finish(Failed(trace, c.exc))
              /\ UNCHANGED <<text, parsed, sections>>
           \/ /\ c.ok /\ ~p.ok
              /\ Finish(Failed(trace, "Could not parse JSON from model output."))
              /\ text' = c.text
              /\ parsed' = p
              /\ UNCHANGED sections
           \/ /\ c.ok /\ p.ok
              /\ \E clock \in Clocks :
                    Finish(Render(trace, customer, accent_hex, ToDict(p.value), logo_file, clock))
              /\ text' = c.text
              /\ parsed' = p
              /\ sections' = ToDict(p.value)

Next ==
    \/ Reload
    \/ \E c \in Customers : SetCustomer(c)
    \/ \E a \in Accents : SetAccent(a)
    \/ \E l \in Logos : SetLogo(l)
    \/ \E i \in 1..Len(ProviderOptions(requests)) : SetProvider(ProviderOptions(requests)[i])
    \/ \E k \in Keys : SetKey(k)
    \/ ClickGenerate
    \/ \E answer \in Answers : Respond(answer)

Spec == Init /\ [][Next]_vars

(***************************************************************************)
(* safe_parse_json on every body of up to MaxLen tokens, and on every body *)
(* put together from up to MaxPieces pieces.                               *)
(***************************************************************************)

MaxLen == 6

ParseAlphabet ==
    {Tok("prose"), Tok("ws"), Tok("xws"), Tok("fence"), Tok("json"), Tok("lbrace"),
     Tok("rbrace"), Scalar(IntVal), Tok("key")}

MaxPieces == 3

\* A string literal that holds a fenced object.
FenceString ==
    <<Tok("quote"), Tok("fence"), Tok("lbrace"), Tok("rbrace"), Tok("fence"), Tok("quote")>>

\* The pieces: every token but the lone quote, and the objects, strings,
\* arrays and fenced blocks that a body of few tokens cannot hold together.
Pieces ==
    {<<k>> : k \in ParseAlphabet \cup {Tok("comma"), Tok("lbracket"), Tok("rbracket")}}
    \cup {<<Tok("lbrace"), Tok("rbrace")>>,
          <<Tok("lbrace"), Tok("key"), Scalar(IntVal), Tok("rbrace")>>,
          <<Tok("lbrace"), Tok("key"), Tok("lbrace"), Tok("rbrace"), Tok("rbrace")>>,
          <<Tok("lbrace"), Tok("prose"), Tok("rbrace")>>,
          <<Tok("quote"), Tok("prose"), Tok("quote")>>,
          FenceString,
          <<Tok("lbrace"), Tok("key")>> \o FenceString \o <<Tok("rbrace")>>,
          <<Tok("lbracket")>> \o FenceString \o <<Tok("rbracket")>>,
          <<Tok("fence"), Tok("json"), Tok("ws")>>,
          <<Tok("ws"), Tok("fence")>>,
          <<Tok("fence"), Tok("lbrace"), Tok("rbrace"), Tok("fence")>>,
          <<Tok("fence"), Tok("json"), Tok("ws"), Tok("lbrace"), Tok("key"), Tok("lbrace"),
            Tok("rbrace"), Tok("rbrace"), Tok("ws"), Tok("fence")>>,
          <<Tok("fence"), Tok("lbrace"), Tok("prose"), Tok("rbrace"), Tok("fence")>>}

RECURSIVE Flatten(_)
Flatten(w) == IF w = <<>> THEN <<>> ELSE Head(w) \o Flatten(Tail(w))

InitParse ==
    /\ \/ \E n \in 0..MaxLen : text \in [1..n -> ParseAlphabet]
       \/ \E n \in 1..MaxPieces : \E w \in [1..n -> Pieces] : text = Flatten(w)
    /\ pptx = TRUE
    /\ requests = TRUE
    /\ customer = RugsUSA
    /\ accent_hex = <<"#", "0", "8", "5", "7", "4", "A">>
    /\ logo_file = "None"
    /\ provider = "OpenAI"
    /\ api_key = <<>>
    /\ presets = PRESETS
    /\ pc = "idle"
    /\ parsed = NoParse
    /\ sections = NoSections
    /\ trace = <<>>
    /\ error = ""
    /\ prs = <<>>
    /\ download = NoDownload

ParseStep ==
    /\ pc = "idle"
    /\ pc' = "parsed"
    /\ parsed' = safe_parse_json(text)
    /\ UNCHANGED <<customer, accent_hex, logo_file, provider, api_key, pptx, requests,
                   presets, text, sections, trace, error, prs, download>>

NextParse == ParseStep

SpecParse == InitParse /\ [][NextParse]_vars

(***************************************************************************)
(* Properties.                                                             *)
(***************************************************************************)

Count(tr, ev) == Cardinality({i \in 1..Len(tr) : tr[i] = ev})

\* A run of the handler has ended and its output is on the page.
RunEnded == pc = "idle" /\ trace # <<>>

\* The text n occurs in the text t.
Contains(t, n) ==
    \E i \in 0..(Len(t) - Len(n)) : SubSeq(t, i + 1, i + Len(n)) = n

\* The index of the accent bar among the shapes; the four shapes of row i
\* (0..4) follow at RowBase + 4 * i + 1 .. RowBase + 4 * i + 4.
RowBase(shapes) == IF shapes[2].shape = "picture" THEN 3 ELSE 2

\* A record of the schema: a str vision and four lists.
SchemaTyped(secs) ==
    /\ secs.isdict
    /\ \A i \in 1..5 : Fields[i] \in DOMAIN secs.d
    /\ secs.d[Fields[1]].kind = "str"
    /\ \A f \in BulletFields : secs.d[f].kind = "list"

\* A record that build_slide renders: the five fields, each a str or a list.
Renderable(secs) ==
    /\ secs.isdict
    /\ \A i \in 1..5 :
          Fields[i] \in DOMAIN secs.d /\ secs.d[Fields[i]].kind \in {"str", "list"}

\* ---- C1 ----------------------------------------------------------------

HasFence(s) == \E i \in 1..Len(s) : s[i].t = "fence"

RECURSIVE TrimWs(_)
TrimWs(s) ==
    IF s # <<>> /\ Head(s).t \in {"ws", "xws"} THEN TrimWs(Tail(s))
    ELSE IF s # <<>> /\ s[Len(s)].t \in {"ws", "xws"}
         THEN TrimWs(SubSeq(s, 1, Len(s) - 1))
    ELSE s

\* The contents x of the block when s is prose (free of fences) followed by
\* one fenced block that ends s: the fence, the tag json or none, then x
\* with whitespace around it, then the fence.  {} when s has no such shape.
FencedContents(s) ==
    {TrimWs(SubSeq(s, (IF Kind(s, i + 1) = "json" THEN i + 2 ELSE i + 1), Len(s) - 1)) :
        i \in {k \in 1..(Len(s) - 1) :
                 /\ s[k].t = "fence"
                 /\ s[Len(s)].t = "fence"
                 /\ ~HasFence(SubSeq(s, 1, k - 1))}}

\* The spans s[a..b] from an opening brace to a closing brace that stand
\* between fences: a fence, the tag json or none, and whitespace before
\* s[a]; whitespace and a fence after s[b].
FencedSpans(s) ==
    LET opens == {i \in 1..Len(s) :
                    /\ s[i].t = "lbrace"
                    /\ \E f \in 1..(i - 1) :
                          /\ s[f].t = "fence"
                          /\ SkipWs(s, IF Kind(s, f + 1) = "json" THEN f + 2 ELSE f + 1) = i}
        closes == {i \in 1..Len(s) :
                     s[i].t = "rbrace" /\ Kind(s, SkipWs(s, i + 1)) = "fence"}
    IN  {SubSeq(s, a, b) : a \in opens, b \in closes}

ParseContract(objects_only) ==
    pc = "parsed" =>
        LET whole == IsJson(text)
            blocks == re_findall(text)
        IN  /\ whole => parsed = [ok |-> TRUE, value |-> Canon(text)]
            /\ \A x \in FencedContents(text) :
                  (IsJson(x) /\ (objects_only => (x[1].t = "lbrace" /\ ~HasFence(x)))) =>
                      parsed = [ok |-> TRUE, value |-> Canon(x)]
            /\ (~HasFence(text) /\ ~whole) => ~parsed.ok
            /\ ~parsed.ok => (~whole /\ \A i \in 1..Len(blocks) : ~IsJson(blocks[i]))
            /\ (~whole /\ parsed.ok) =>
                  \E x \in FencedSpans(text) :
                      IsJson(x) /\ parsed = [ok |-> TRUE, value |-> Canon(x)]

\* C1 as stated: a body that is valid JSON parses to that value; prose
\* followed by a fenced block (tagged json or not) that contains valid JSON
\* parses to the embedded value; a body with no fence that is not JSON
\* raises; the whole body is tried first and the fenced candidates only
\* after it fails (what a body that is not JSON parses to is the value of a
\* brace-delimited span between fences); the error is raised only when
\* neither the body nor any fenced candidate parses.
C1_AnyFencedJsonParses == ParseContract(FALSE)

\* C1 amended: the same, where the fenced block contains a JSON object
\* that holds no fence.
C1_ParsePolicy == ParseContract(TRUE)

\* Two candidates, of which the first does not parse and the second, in a
\* block tagged json, does.
C1_Witness ==
    /\ pc = "parsed"
    /\ Len(re_findall(text)) = 2
    /\ ~IsJson(re_findall(text)[1])
    /\ \E i \in 1..Len(text) : text[i].t = "json"
    /\ parsed = [ok |-> TRUE, value |-> Canon(re_findall(text)[2])]

\* ---- C2 ----------------------------------------------------------------

\* C2: in No-LLM mode a name that is a key of PRESETS yields exactly the
\* stored record, at every generation, and the table is the one the module
\* builds, after every run that builds it.
C2_PresetExact ==
    /\ pc # "stopped" => presets = PRESETS
    /\ (RunEnded /\ provider = NoLLM /\ Strip(customer) \in DOMAIN PRESETS) =>
          sections = Dict(PRESETS[Strip(customer)])

C2_Witness ==
    /\ RunEnded /\ provider = NoLLM
    /\ customer = <<" ">> \o RugsUSA \o <<" ">>
    /\ download.offered

\* ---- C3 ----------------------------------------------------------------

Missing(secs) == {i \in 1..5 : Fields[i] \notin DOMAIN secs.d}

\* C3: a record that lacks one of the five fields is not rendered: the run
\* ends with an error, no presentation, nothing saved, no download; when
\* the fields read before the first missing one are of the schema the
\* error is the KeyError of that field.
C3_IncompleteFails ==
    (RunEnded /\ sections.isdict /\ Missing(sections) # {}) =>
        /\ error # ""
        /\ prs = <<>>
        /\ ~download.offered
        /\ Count(trace, "prs.save") = 0
        /\ Count(trace, "st.download_button") = 0
        /\ LET m == CHOOSE i \in Missing(sections) : \A j \in Missing(sections) : i <= j
           IN  (\A j \in 2..(m - 1) : sections.d[Fields[j]].kind \in {"str", "list"}) =>
                  error = "Generation failed: '" \o Fields[m] \o "'"

C3_Witness ==
    /\ RunEnded /\ sections.isdict
    /\ Missing(sections) = {5}
    /\ Count(trace, "build_slide") = 1
    /\ error # ""

\* ---- C4 ----------------------------------------------------------------

\* C4: the rows come in the order Corporate Vision, Business Strategies,
\* Supply Chain Contribution, Risks of Supply Chain Failure, Critical
\* Capabilities, and row i (0..4) is laid out from y = 1.25 + 1.4 * i: its
\* rail label 0.05 above y, its title 0.02 above y with the body 0.55 under
\* the title, its rule at the bottom edge y + 1.4.
C4_RowOrderAndOffsets ==
    prs # <<>> =>
        LET base == RowBase(prs)
            titles == <<"Corporate Vision", "Business Strategies", "Supply Chain Contribution",
                        "Risks of Supply Chain Failure", "Critical Capabilities">>
        IN  /\ Len(prs) = base + 21
            /\ \A i \in 0..4 :
                  LET y == 1250 + i * 1400
                      label == prs[base + 4 * i + 1]
                      title == prs[base + 4 * i + 2]
                      body == prs[base + 4 * i + 3]
                      rule == prs[base + 4 * i + 4]
                  IN  /\ label.shape = "textbox" /\ label.top = y - 50
                      /\ label.paras = <<RowTitles[i + 1].rail>>
                      /\ title.shape = "textbox" /\ title.top = y - 20
                      /\ title.paras = << <<titles[i + 1]>> >>
                      /\ body.shape = "textbox" /\ body.top = y - 20 + 550
                      /\ rule.shape = "rectangle" /\ rule.top = y + 1400

C4_Witness ==
    /\ prs # <<>>
    /\ prs[2].shape = "picture"
    /\ provider = "Anthropic"

\* ---- C5 ----------------------------------------------------------------

\* The paragraphs of the body of the row of field i (1..5).
BodyOfRow(shapes, i) == shapes[RowBase(shapes) + 4 * (i - 1) + 3].paras

RoundTrip(nonempty_only) ==
    (prs # <<>> /\ SchemaTyped(sections)) =>
        /\ BodyOfRow(prs, 1) = <<sections.d[Fields[1]].text>>
        /\ \A i \in 2..5 :
              LET items == sections.d[Fields[i]].items
                  paras == BodyOfRow(prs, i)
              IN  IF nonempty_only /\ items = <<>> THEN paras = << <<>> >>
                  ELSE /\ Len(paras) = Len(items)
                       /\ \A j \in 1..Len(items) :
                             /\ paras[j] = <<BULLET>> \o items[j]
                             /\ Tail(paras[j]) = items[j]

\* C5 as stated: the vision body is one paragraph, the field's text; the
\* body of each list field has one paragraph per line, in order, each the
\* bullet glyph followed by the line, so that dropping the glyph gives the
\* lines back.
C5_RoundTripAll == RoundTrip(FALSE)

\* C5 amended: the same for a list field that has a line; the body of an
\* empty list is one empty paragraph (a text frame never has none).
C5_RoundTrip == RoundTrip(TRUE)

C5_Witness ==
    /\ prs # <<>> /\ SchemaTyped(sections)
    /\ provider = "OpenAI"
    /\ sections.d[Fields[3]].items = <<>>
    /\ Len(sections.d[Fields[4]].items) = 3

\* ---- C6 ----------------------------------------------------------------

\* C6: in No-LLM mode a name that is no key of PRESETS yields a record whose
\* vision contains the name and whose four lists are the generic ones.
C6_GenericFallback ==
    (RunEnded /\ provider = NoLLM /\ Strip(customer) \notin DOMAIN PRESETS) =>
        /\ sections.isdict
        /\ DOMAIN sections.d = {Fields[i] : i \in 1..5}
        /\ sections.d[Fields[1]].kind = "str"
        /\ Contains(sections.d[Fields[1]].text, Strip(customer))
        /\ \A f \in BulletFields : sections.d[f] = GenericBullets[f]

C6_Witness ==
    /\ RunEnded /\ provider = NoLLM
    /\ customer = <<"Acme", " ", "Co">>
    /\ download.offered

\* ---- C7 ----------------------------------------------------------------

Whitespace(s) == \A i \in 1..Len(s) : s[i] = " "

\* C7: with OpenAI or Anthropic selected and a key that is empty or only
\* whitespace, a click ends in the missing-key error with no request sent
\* and no document.
C7_MissingCredential ==
    (provider \in {"OpenAI", "Anthropic"} /\ Whitespace(api_key) /\ trace # <<>>) =>
        /\ pc = "idle"
        /\ error = "Generation failed: Missing " \o provider \o " API key."
        /\ trace = <<"st.error">>
        /\ prs = <<>>
        /\ ~download.offered

C7_Witness ==
    /\ provider = "Anthropic"
    /\ api_key = <<" ">>
    /\ error # ""

\* ---- C8 ----------------------------------------------------------------

\* C8: with an upload that fails to decode or to be placed, a record that
\* renders at all renders without an error message, to the shapes of the
\* run with no upload.
C8_LogoNeverFatal ==
    (RunEnded /\ logo_file = "corrupt" /\ sections.isdict
        /\ \E day \in Days :
              build_slide(Strip(customer), rgb_hex_to_tuple(accent_hex), sections, "None", day).ok) =>
        /\ error = ""
        /\ Count(trace, "st.error") = 0
        /\ download.offered
        /\ \E day \in Days :
              prs = build_slide(Strip(customer), rgb_hex_to_tuple(accent_hex), sections,
                                "None", day).shapes

C8_Witness ==
    /\ RunEnded /\ logo_file = "corrupt"
    /\ download.offered
    /\ provider = "OpenAI"

\* ---- C9 ----------------------------------------------------------------

\* C9: a run sends at most one request; a run that ended shows either one
\* error and nothing else, or one success with the download; every failure
\* (no key, the request failing, no content in the envelope, a body that
\* does not parse, a record that does not render) ends the first way; and
\* build_slide is not entered unless generate_sections returned.
C9_SingleErrorNoRetry ==
    /\ Count(trace, "requests.post") <= 1
    /\ RunEnded =>
          \/ /\ error # ""
             /\ Count(trace, "st.error") = 1
             /\ trace[Len(trace)] = "st.error"
             /\ Count(trace, "st.success") = 0
             /\ Count(trace, "st.download_button") = 0
             /\ Count(trace, "prs.save") = 0
             /\ ~download.offered /\ prs = <<>>
          \/ /\ error = ""
             /\ Count(trace, "st.error") = 0
             /\ Count(trace, "st.success") = 1
             /\ download.offered /\ prs # <<>>
    /\ (RunEnded /\ provider # NoLLM /\ ~parsed.ok) =>
          (error # "" /\ Count(trace, "build_slide") = 0)
    /\ (RunEnded /\ (provider = NoLLM \/ parsed.ok) /\ ~Renderable(sections)) =>
          (error # "" /\ Count(trace, "build_slide") = 1)

C9_Witness ==
    /\ RunEnded
    /\ Count(trace, "requests.post") = 1
    /\ text # <<>> /\ ~parsed.ok
    /\ error = "Generation failed: Could not parse JSON from model output."

\* ---- C10 ---------------------------------------------------------------

\* C10: the one accent bar covers the region of the five rows, from the top
\* of the first row (1.25) to the rule under the last (1.25 + 5 * 1.4),
\* inside the height of the canvas (7.5).
C10_AccentBarSpansRows ==
    prs # <<>> =>
        LET bar == prs[RowBase(prs)]
            last_rule == prs[RowBase(prs) + 20]
        IN  /\ Cardinality({i \in 1..Len(prs) : prs[i].shape = "rectangle" /\ prs[i].width < prs[i].height}) = 1
            /\ bar.shape = "rectangle" /\ bar.left = 2800
            /\ bar.top <= 1250
            /\ bar.top + bar.height >= last_rule.top
            /\ last_rule.top = 1250 + 5 * 1400
            /\ last_rule.top <= download.data.slide_height

====
